---- MODULE Spec2Model ----
(***************************************************************************)
(* file-header: checking for, adding and deleting headers in files.        *)
(*                                                                         *)
(* Text is a sequence of characters, each character a one-character        *)
(* string.  BAD stands for a byte sequence that is not valid UTF-8.        *)
(*                                                                         *)
(* Four specifications:                                                    *)
(*   Spec      one file on disk and calls of Header::add_header_if_missing *)
(*             and Header::delete_header_if_present on it;                 *)
(*   ScanSpec  check_headers_recursively: the main thread, the path and    *)
(*             result channels and the worker threads, interleaved;        *)
(*   BatchSpec add_headers_recursively and delete_headers_recursively on a *)
(*             directory tree: find_files, then the files one by one;      *)
(*   EvalSpec  one call of SingleLineChecker::check, wrap_header or        *)
(*             header_delimiters on an argument.                           *)
(***************************************************************************)
EXTENDS Naturals, Integers, Sequences, FiniteSets

VARIABLES
    \* ---- Header<SingleLineChecker> and one file on disk (Spec)
    hdr,            \* [checker |-> [pattern, max_lines], header]: the Header
    path,           \* [extension, file_name]: the path p of the file
    contents,       \* the bytes of the file on disk
    calls,          \* the last two calls made on the file, oldest first
    \* ---- check_headers_recursively (ScanSpec)
    walk,           \* what walkdir yields under root, in traversal order
    num_threads,    \* the num_threads argument
    main_pc,        \* position of the calling thread
    walk_i,         \* number of walk entries find_files has consumed
    path_q,         \* the path channel's queue
    path_tx,        \* TRUE while the path Sender is alive
    result_q,       \* the result channel's queue
    result_rx,      \* TRUE while the result Receiver is alive
    result_tx,      \* the workers that hold a clone of the result Sender
    wpc,            \* position of each worker thread
    wcur,           \* the path a worker is working on (0: none)
    wout,           \* the outcome of a worker's check of wcur
    res,            \* the FileResults collected so far
    ret,            \* what check_headers_recursively returned
    joined,         \* the workers whose handle has been joined
    taken,          \* which worker received which path, in order
    \* ---- add_headers_recursively / delete_headers_recursively (BatchSpec)
    tree,           \* the directory tree under root: nodes with their parent
    disk,           \* the bytes of each path's file on disk
    operation,      \* "add" or "delete": the per-file operation
    changed,        \* the paths kept by the filter_map, in order
    applied,        \* the paths the operation was applied to, in order
    \* ---- one call of a function (EvalSpec)
    eval            \* [fn, arg, out]: the function, its argument, its result

fileVars == <<hdr, path, contents, calls>>
scanVars == <<walk, num_threads, main_pc, walk_i, path_q, path_tx, result_q,
              result_rx, result_tx, wpc, wcur, wout, res, ret, joined, taken>>
batchVars == <<tree, disk, operation, changed, applied>>
otherVars == <<batchVars, eval>>
vars == <<fileVars, scanVars, otherVars>>

----------------------------------------------------------------------------
(* Bounds of the model *)

\* number of pieces an initial file is made of
MaxPieces == 2
\* largest max_lines of a checker
MaxLines == 3
\* add_header_if_missing is not called on a file longer than this
MaxFileLen == 24
\* number of entries of a directory walk
MaxEntries == 2
\* largest num_threads
MaxThreads == 2
\* nodes of the tree under root
MaxNodes == 3

----------------------------------------------------------------------------
(* Text *)

NL == "\n"
SP == " "
TAB == "\t"
BAD == "0xFF"

Str1(a) == <<a>>

\* s from position i (1-based) on
From(s, i) == SubSeq(s, i, Len(s))

\* t occurs in s at position i
OccursAt(s, t, i) ==
    /\ i >= 1
    /\ i + Len(t) - 1 <= Len(s)
    /\ \A k \in 1..Len(t) : s[i + k - 1] = t[k]

\* str::contains
Contains(s, t) == \E i \in 1..(Len(s) + 1) : OccursAt(s, t, i)

\* str::find: the position of the leftmost occurrence of t in s, 0 if none
RECURSIVE FindFrom(_, _, _)
FindFrom(s, t, i) ==
    IF i + Len(t) - 1 > Len(s) THEN 0
    ELSE IF OccursAt(s, t, i) THEN i
    ELSE FindFrom(s, t, i + 1)

Find(s, t) == FindFrom(s, t, 1)

\* str::replacen(t, "", 1): s without the first occurrence of t
Replacen1(s, t) ==
    LET i == Find(s, t)
    IN  IF i = 0 THEN s
        ELSE SubSeq(s, 1, i - 1) \o From(s, i + Len(t))

\* str::split_once('\n'): <<first_line, rest>>, or <<>> for None
SplitOnceNL(s) ==
    LET i == Find(s, Str1(NL))
    IN  IF i = 0 THEN <<>>
        ELSE <<SubSeq(s, 1, i - 1), From(s, i + 1)>>

\* str::split('\n'): the pieces between newlines, empty ones included
RECURSIVE SplitNL(_)
SplitNL(s) ==
    LET i == Find(s, Str1(NL))
    IN  IF i = 0 THEN <<s>>
        ELSE <<SubSeq(s, 1, i - 1)>> \o SplitNL(From(s, i + 1))

\* str::trim_end_matches([' ', '\t'])
RECURSIVE TrimEnd(_)
TrimEnd(s) ==
    IF Len(s) > 0 /\ s[Len(s)] \in {SP, TAB}
    THEN TrimEnd(SubSeq(s, 1, Len(s) - 1))
    ELSE s

\* decoding bytes as UTF-8 succeeds
ValidUtf8(s) == \A i \in 1..Len(s) : s[i] # BAD

----------------------------------------------------------------------------
(* Delimiters and wrapping *)

\* a construction that takes the last line for the first and the first for the last
HeaderDelimiters_Swapped(first, prefix, last) ==
    [first_line |-> last, content_line_prefix |-> prefix, last_line |-> first]

\* struct HeaderDelimiters
HeaderDelimiters(first, prefix, last) ==
    [first_line |-> first, content_line_prefix |-> prefix, last_line |-> last]

\* Option::None
None == [none |-> TRUE]

\* header_delimiters: by extension, then by whole file name
header_delimiters(p) ==
    LET e == p.extension
    IN  IF e \in {"c", "h", "gv", "java", "scala", "kt", "kts"}
        THEN HeaderDelimiters(<<"/", "*">>, <<SP, "*", SP>>, <<SP, "*", "/">>)
        ELSE IF e \in {"js", "mjs", "cjs", "jsx", "tsx", "css", "scss", "sass", "ts"}
        THEN HeaderDelimiters(<<"/", "*", "*">>, <<SP, "*", SP>>, <<SP, "*", "/">>)
        ELSE IF e \in {"cc", "cpp", "cs", "go", "hcl", "hh", "hpp", "m", "mm", "proto",
                       "rs", "swift", "dart", "groovy", "v", "sv"}
        THEN HeaderDelimiters(<<>>, <<"/", "/", SP>>, <<>>)
        ELSE IF e \in {"py", "sh", "yaml", "yml", "dockerfile", "rb", "gemfile", "tcl",
                       "tf", "bzl", "pl", "pp", "build"}
        THEN HeaderDelimiters(<<>>, <<"#", SP>>, <<>>)
        ELSE IF e \in {"el", "lisp"}
        THEN HeaderDelimiters(<<>>, <<";", ";", SP>>, <<>>)
        ELSE IF e = "erl"
        THEN HeaderDelimiters(<<>>, <<"%", SP>>, <<>>)
        ELSE IF e \in {"hs", "lua", "sql", "sdl"}
        THEN HeaderDelimiters(<<>>, <<"-", "-", SP>>, <<>>)
        ELSE IF e \in {"html", "xml", "vue", "wxi", "wxl", "wxs"}
        THEN HeaderDelimiters(<<"<", "!", "-", "-">>, <<SP>>, <<"-", "-", ">">>)
        ELSE IF e = "php"
        THEN HeaderDelimiters(<<>>, <<"/", "/", SP>>, <<>>)
        ELSE IF e \in {"ml", "mli", "mll", "mly"}
        THEN HeaderDelimiters(<<"(", "*", "*">>, <<SP, SP, SP>>, <<"*", ")">>)
        ELSE IF p.file_name = "Dockerfile"
        THEN HeaderDelimiters(<<>>, <<"#", SP>>, <<>>)
        ELSE None

\* a loop that does not trim
RECURSIVE WrapLines_NoTrim(_, _, _)
WrapLines_NoTrim(out, lines, delim) ==
    IF lines = <<>> THEN out
    ELSE WrapLines_NoTrim(out \o delim.content_line_prefix \o Head(lines) \o Str1(NL),
                          Tail(lines), delim)

\* the loop of wrap_header over the lines of the header: out after them
RECURSIVE WrapLines(_, _, _)
WrapLines(out, lines, delim) ==
    IF lines = <<>> THEN out
    ELSE WrapLines(TrimEnd(out \o delim.content_line_prefix \o Head(lines)) \o Str1(NL),
                   Tail(lines), delim)

\* wrap_header
wrap_header(orig_header, delim) ==
    LET first == IF delim.first_line # <<>>
                 THEN delim.first_line \o Str1(NL) ELSE <<>>
        body == WrapLines(first, SplitNL(orig_header), delim)
    IN  IF delim.last_line # <<>>
        THEN body \o delim.last_line \o Str1(NL) ELSE body

\* const MAGIC_FIRST_LINES
MAGIC_FIRST_LINES ==
    << <<"#", "!">>,
       <<"<", "?", "x", "m", "l">>,
       <<"<", "!", "d", "o", "c", "t", "y", "p", "e">>,
       <<"#", SP, "e", "n", "c", "o", "d", "i", "n", "g", ":">>,
       <<"#", SP, "f", "r", "o", "z", "e", "n", "_", "s", "t", "r", "i", "n", "g", "_", "l", "i", "t", "e", "r", "a", "l", ":">>,
       <<"<", "?", "p", "h", "p">>,
       <<"#", SP, "e", "s", "c", "a", "p", "e">>,
       <<"#", SP, "s", "y", "n", "t", "a", "x">> >>

\* MAGIC_FIRST_LINES.iter().any(|l| first_line.contains(l))
IsMagic(first_line) ==
    \E k \in 1..Len(MAGIC_FIRST_LINES) : Contains(first_line, MAGIC_FIRST_LINES[k])

----------------------------------------------------------------------------
(* SingleLineChecker *)

\* the loop of SingleLineChecker::check on the unread input
RECURSIVE CheckLoop(_, _, _)
CheckLoop(checker, input, lines_read) ==
    IF lines_read >= checker.max_lines THEN "Ok(false)"
    ELSE IF Len(input) = 0 THEN "Ok(false)"
    ELSE LET i == Find(input, Str1(NL))
             line == IF i = 0 THEN input ELSE SubSeq(input, 1, i)
             rest == IF i = 0 THEN <<>> ELSE From(input, i + 1)
         IN  IF ~ValidUtf8(line) THEN "Err(InvalidData)"
             ELSE IF Contains(line, checker.pattern) THEN "Ok(true)"
             ELSE CheckLoop(checker, rest, lines_read + 1)

\* a checker that stops one line early
check_OneLineShort(checker, input) == CheckLoop(checker, input, 1)

\* SingleLineChecker::check
check(checker, input) == CheckLoop(checker, input, 0)

\* Header::header_present
header_present(h, input) == check(h.checker, input)

----------------------------------------------------------------------------
(* Header::add_header_if_missing and Header::delete_header_if_present, as   *)
(* functions of the Header h, the path p and the bytes c of the file at p:  *)
(* [ret |-> what the call returns, contents |-> the bytes it leaves]        *)

\* the header with a magic first line of the file kept before it
EffectiveAddHeader(wrapped, c) ==
    LET so == SplitOnceNL(c)
    IN  IF so # <<>> /\ IsMagic(so[1])
        THEN so[1] \o Str1(NL) \o wrapped
        ELSE wrapped

\* what add_header_if_missing writes after the header and the separator
AfterHeader(c) ==
    LET so == SplitOnceNL(c)
    IN  IF so # <<>> /\ IsMagic(so[1]) THEN so[2] ELSE c

\* a write that leaves out the separating newline
AddWrite_NoSeparator(wrapped, c) ==
    EffectiveAddHeader(wrapped, c) \o AfterHeader(c)

\* the bytes add_header_if_missing writes to the truncated file
AddWrite(wrapped, c) ==
    EffectiveAddHeader(wrapped, c) \o Str1(NL) \o AfterHeader(c)

\* an insertion that does not ask the checker first
add_header_if_missing_Unchecked(h, p, c) ==
    IF ~ValidUtf8(c)
    THEN [ret |-> "Err(IoError)", contents |-> c]
    ELSE IF header_delimiters(p) = None
    THEN [ret |-> "Err(UnrecognizedExtension)", contents |-> c]
    ELSE [ret |-> "Ok(true)",
          contents |-> AddWrite(wrap_header(h.header, header_delimiters(p)), c)]

\* an insertion that opens the file with truncation before the delimiters
\* are looked up
add_header_if_missing_TruncateFirst(h, p, c) ==
    IF ~ValidUtf8(c)
    THEN [ret |-> "Err(IoError)", contents |-> c]
    ELSE IF header_present(h, c) = "Ok(true)"
    THEN [ret |-> "Ok(false)", contents |-> c]
    ELSE IF header_delimiters(p) = None
    THEN [ret |-> "Err(UnrecognizedExtension)", contents |-> <<>>]
    ELSE [ret |-> "Ok(true)",
          contents |-> AddWrite(wrap_header(h.header, header_delimiters(p)), c)]

\* an insertion that looks up the delimiters before it asks the checker
add_header_if_missing_DelimitersFirst(h, p, c) ==
    IF ~ValidUtf8(c)
    THEN [ret |-> "Err(IoError)", contents |-> c]
    ELSE IF header_delimiters(p) = None
    THEN [ret |-> "Err(UnrecognizedExtension)", contents |-> c]
    ELSE IF header_present(h, c) = "Ok(true)"
    THEN [ret |-> "Ok(false)", contents |-> c]
    ELSE [ret |-> "Ok(true)",
          contents |-> AddWrite(wrap_header(h.header, header_delimiters(p)), c)]

add_header_if_missing(h, p, c) ==
    IF ~ValidUtf8(c)
    THEN [ret |-> "Err(IoError)", contents |-> c]
    ELSE IF header_present(h, c) = "Ok(true)"
    THEN [ret |-> "Ok(false)", contents |-> c]
    ELSE IF header_delimiters(p) = None
    THEN [ret |-> "Err(UnrecognizedExtension)", contents |-> c]
    ELSE [ret |-> "Ok(true)",
          contents |-> AddWrite(wrap_header(h.header, header_delimiters(p)), c)]

\* a block without the separator
EffectiveDeleteHeader_NoSeparator(wrapped) == wrapped

\* the block delete_header_if_present looks for: the wrapped header and the
\* newline separator appended by add_header_if_missing
EffectiveDeleteHeader(wrapped) == wrapped \o Str1(NL)

\* str::replace(t, ""): s without any occurrence of t
RECURSIVE ReplaceAll(_, _)
ReplaceAll(s, t) ==
    LET i == Find(s, t)
    IN  IF i = 0 \/ t = <<>> THEN s
        ELSE SubSeq(s, 1, i - 1) \o ReplaceAll(From(s, i + Len(t)), t)

\* a deletion of every copy of the block
DeleteWrite_All(block, c) == ReplaceAll(c, block)

\* the bytes delete_header_if_present writes to the truncated file
DeleteWrite(block, c) == Replacen1(c, block)

\* s without the first of its lines that contains pat
RECURSIVE DropLineWith(_, _)
DropLineWith(s, pat) ==
    IF s = <<>> THEN s
    ELSE LET i == Find(s, Str1(NL))
             line == IF i = 0 THEN s ELSE SubSeq(s, 1, i)
             rest == IF i = 0 THEN <<>> ELSE From(s, i + 1)
         IN  IF Contains(line, pat) THEN rest
             ELSE line \o DropLineWith(rest, pat)

\* a deletion that acts on the checker's pattern alone
delete_header_if_present_ByPattern(h, p, c) ==
    IF ~ValidUtf8(c)
    THEN [ret |-> "Err(IoError)", contents |-> c]
    ELSE IF header_present(h, c) # "Ok(true)"
    THEN [ret |-> "Ok(false)", contents |-> c]
    ELSE IF header_delimiters(p) = None
    THEN [ret |-> "Err(UnrecognizedExtension)", contents |-> c]
    ELSE [ret |-> "Ok(true)", contents |-> DropLineWith(c, h.checker.pattern)]

delete_header_if_present(h, p, c) ==
    IF ~ValidUtf8(c)
    THEN [ret |-> "Err(IoError)", contents |-> c]
    ELSE IF header_present(h, c) # "Ok(true)"
    THEN [ret |-> "Ok(false)", contents |-> c]
    ELSE IF header_delimiters(p) = None
    THEN [ret |-> "Err(UnrecognizedExtension)", contents |-> c]
    ELSE LET effective_header ==
                 EffectiveDeleteHeader(wrap_header(h.header, header_delimiters(p)))
         IN  IF ~Contains(c, effective_header)
             THEN [ret |-> "Ok(false)", contents |-> c]
             ELSE [ret |-> "Ok(true)", contents |-> DeleteWrite(effective_header, c)]

----------------------------------------------------------------------------
(* Spec: one Header, one file, calls of add and delete on it *)

\* header texts
Headers == { <<"a">>, <<"a", SP, NL, NL, "b">> }

\* patterns of the checker
Patterns == { <<"a">>, <<"b">>, <<"a", SP>> }

\* Header::new(SingleLineChecker::new(pattern, max_lines), header)
HeaderNew(pattern, max_lines, header) ==
    [checker |-> [pattern |-> pattern, max_lines |-> max_lines], header |-> header]

\* paths: extension and file name
Paths ==
    { [extension |-> "c", file_name |-> "f.c"],
      [extension |-> "py", file_name |-> "f.py"],
      [extension |-> "html", file_name |-> "f.html"],
      [extension |-> "zzz", file_name |-> "f.zzz"] }

\* what initial files are made of: text, newlines, a shebang with and without
\* its newline, bytes that are not UTF-8 and, where the path has delimiters,
\* the block add would insert
Pieces(h, p) ==
    { <<"a">>, <<NL>>, <<"#", "!", NL>>, <<"#", "!">>, <<BAD>> }
    \cup (IF header_delimiters(p) = None THEN {}
          ELSE { EffectiveDeleteHeader(wrap_header(h.header, header_delimiters(p))) })

RECURSIVE FilesOf(_, _)
FilesOf(pieces, n) ==
    IF n = 0 THEN { <<>> }
    ELSE LET S == FilesOf(pieces, n - 1)
         IN  S \cup { s \o q : s \in S, q \in pieces }

ScanIdle ==
    /\ walk = <<>>
    /\ num_threads = 0
    /\ main_pc = "idle"
    /\ walk_i = 0
    /\ path_q = <<>>
    /\ path_tx = FALSE
    /\ result_q = <<>>
    /\ result_rx = FALSE
    /\ result_tx = {}
    /\ wpc = <<>>
    /\ wcur = <<>>
    /\ wout = <<>>
    /\ res = [no_header_files |-> <<>>, binary_files |-> <<>>]
    /\ ret = "none"
    /\ joined = {}
    /\ taken = <<>>

\* no batch operation is running
BatchIdle ==
    /\ tree = <<>>
    /\ disk = <<>>
    /\ operation = "none"
    /\ changed = <<>>
    /\ applied = <<>>

\* no function has been called
NoEval == [fn |-> "none"]

Init ==
    /\ \E pattern \in Patterns, max_lines \in 0..MaxLines, header \in Headers :
           hdr = HeaderNew(pattern, max_lines, header)
    /\ path \in Paths
    /\ contents \in FilesOf(Pieces(hdr, path), MaxPieces)
    /\ calls = <<>>
    /\ ScanIdle
    /\ BatchIdle
    /\ eval = NoEval

\* the record of a call: the operation, the bytes before and after, the result
Call(op, before, r) ==
    [op |-> op, before |-> before, after |-> r.contents, ret |-> r.ret]

\* the last two calls
Remember(call) ==
    IF Len(calls) < 2 THEN Append(calls, call) ELSE <<calls[2], call>>

AddHeader ==
    /\ Len(contents) <= MaxFileLen
    /\ LET r == add_header_if_missing(hdr, path, contents)
       IN  /\ contents' = r.contents
           /\ calls' = Remember(Call("add", contents, r))
    /\ UNCHANGED <<hdr, path, scanVars, otherVars>>

DeleteHeader ==
    /\ LET r == delete_header_if_present(hdr, path, contents)
       IN  /\ contents' = r.contents
           /\ calls' = Remember(Call("delete", contents, r))
    /\ UNCHANGED <<hdr, path, scanVars, otherVars>>

Next == AddHeader \/ DeleteHeader

Spec == Init /\ [][Next]_vars

----------------------------------------------------------------------------
(* ScanSpec: check_headers_recursively                                      *)
(*                                                                          *)
(* A walk is the sequence of entries walkdir yields; a path is the index of *)
(* its entry.  A worker is one of 1..num_threads.                           *)

\* a walkdir error in place of an entry
WalkError == [kind |-> "err"]

\* a directory
DirEntry == [kind |-> "dir"]

\* a file: does path_predicate accept it, can it be opened, its bytes
FileEntry(accept, open, bytes) ==
    [kind |-> "file", accept |-> accept, open |-> open, bytes |-> bytes]

\* n empty lines
RECURSIVE EmptyLines(_)
EmptyLines(n) == IF n = 0 THEN <<>> ELSE <<NL>> \o EmptyLines(n - 1)

\* the entries walks are made of: besides text files with and without the
\* header, files that are not UTF-8 from the first byte, after the header
\* line, and after more lines than the checker reads
Entries ==
    { WalkError,
      DirEntry,
      FileEntry(FALSE, TRUE, <<"b", NL>>),
      FileEntry(TRUE, TRUE, <<"a", NL, "b">>),
      FileEntry(TRUE, TRUE, <<"b", NL>>),
      FileEntry(TRUE, TRUE, <<BAD, BAD>>),
      FileEntry(TRUE, TRUE, <<"a", NL, BAD>>),
      FileEntry(TRUE, TRUE, EmptyLines(MaxLines) \o <<BAD>>),
      FileEntry(TRUE, FALSE, <<>>) }

RECURSIVE WalksOf(_)
WalksOf(n) ==
    IF n = 0 THEN { <<>> }
    ELSE LET S == WalksOf(n - 1)
         IN  S \cup { Append(t, e) : t \in S, e \in Entries }

\* the Header of the scan
ScanHeader == HeaderNew(<<"a">>, MaxLines, <<"a">>)

Workers == 1..num_threads

\* fs::File::open(&p).and_then(|mut f| header.header_present(&mut f))
OpenAndCheck(h, e) ==
    IF ~e.open THEN "Err(PermissionDenied)" ELSE header_present(h, e.bytes)

\* a worker that reports a file it could not decode as one without the header
ResultFor_BinaryAsMissing(p, out) ==
    IF out \in {"Ok(false)", "Err(InvalidData)"}
    THEN [ok |-> TRUE, path |-> p, status |-> "HeaderNotFound"]
    ELSE [ok |-> FALSE, path |-> p, status |-> "IoError"]

\* the message a worker sends for path p after the outcome out of its check
ResultFor(p, out) ==
    IF out = "Ok(false)" THEN [ok |-> TRUE, path |-> p, status |-> "HeaderNotFound"]
    ELSE IF out = "Err(InvalidData)" THEN [ok |-> TRUE, path |-> p, status |-> "BinaryFile"]
    ELSE [ok |-> FALSE, path |-> p, status |-> "IoError"]

\* a FromIterator that files every result under no_header_files
Push_OneList(results, r) ==
    [results EXCEPT !.no_header_files = Append(@, r.path)]

\* one step of FileResults::from_iter
Push(results, r) ==
    IF r.status = "HeaderNotFound"
    THEN [results EXCEPT !.no_header_files = Append(@, r.path)]
    ELSE [results EXCEPT !.binary_files = Append(@, r.path)]

\* an iterator that ends as soon as the queue is empty
ResultsClosed_WhenEmpty == result_q = <<>>

\* result_rx.into_iter() ends: the queue is empty and every Sender is dropped
ResultsClosed == result_q = <<>> /\ result_tx = {}

ScanInit ==
    /\ hdr = ScanHeader
    /\ path = [extension |-> "", file_name |-> "root"]
    /\ contents = <<>>
    /\ calls = <<>>
    /\ walk \in WalksOf(MaxEntries)
    /\ num_threads \in 0..MaxThreads
    /\ main_pc = "spawn"
    /\ walk_i = 0
    /\ path_q = <<>>
    /\ path_tx = FALSE
    /\ result_q = <<>>
    /\ result_rx = FALSE
    /\ result_tx = {}
    /\ wpc = [w \in 1..num_threads |-> "unspawned"]
    /\ wcur = [w \in 1..num_threads |-> 0]
    /\ wout = [w \in 1..num_threads |-> "none"]
    /\ res = [no_header_files |-> <<>>, binary_files |-> <<>>]
    /\ ret = "none"
    /\ joined = {}
    /\ taken = <<>>
    /\ BatchIdle
    /\ eval = NoEval

\* a start that keeps the main result Sender
Spawn_KeepSender ==
    /\ main_pc = "spawn"
    /\ main_pc' = "find"
    /\ path_tx' = TRUE
    /\ result_rx' = TRUE
    /\ result_tx' = Workers \cup {0}
    /\ wpc' = [w \in Workers |-> "recv"]
    /\ UNCHANGED <<fileVars, otherVars, walk, num_threads, walk_i, path_q, result_q,
                   wcur, wout, res, ret, joined, taken>>

\* the channels are made, the workers spawned, the main result Sender dropped
Spawn ==
    /\ main_pc = "spawn"
    /\ main_pc' = "find"
    /\ path_tx' = TRUE
    /\ result_rx' = TRUE
    /\ result_tx' = Workers
    /\ wpc' = [w \in Workers |-> "recv"]
    /\ UNCHANGED <<fileVars, otherVars, walk, num_threads, walk_i, path_q, result_q, wcur, wout,
                   res, ret, joined, taken>>

\* check_headers_recursively returns r: its channel ends and handles are dropped
Return(r) ==
    /\ main_pc' = "returned"
    /\ ret' = r
    /\ path_tx' = FALSE
    /\ result_rx' = FALSE

\* a find_files that leaves out only what the predicate rejects
Skipped_ByPredicate(e) == ~e.accept

\* entry.path().is_dir() || !path_predicate(entry.path()): the entry is passed
\* over; the predicate is not asked about a directory
Skipped(e) == e.kind = "dir" \/ ~e.accept

\* one turn of the loop of find_files
FindFilesStep ==
    /\ main_pc = "find"
    /\ walk_i < Len(walk)
    /\ LET e == walk[walk_i + 1]
       IN  IF e.kind = "err"
           THEN /\ Return("Err(WalkdirError)")
                /\ UNCHANGED <<walk_i, path_q>>
           ELSE /\ walk_i' = walk_i + 1
                /\ path_q' = IF Skipped(e)
                             THEN path_q ELSE Append(path_q, walk_i + 1)
                /\ UNCHANGED <<main_pc, ret, path_tx, result_rx>>
    /\ UNCHANGED <<fileVars, otherVars, walk, num_threads, result_q, result_tx, wpc, wcur, wout,
                   res, joined, taken>>

\* a find_files that borrows the Sender: the path channel stays open
FindFilesEnd_KeepSender ==
    /\ main_pc = "find"
    /\ walk_i = Len(walk)
    /\ main_pc' = "collect"
    /\ UNCHANGED <<fileVars, otherVars, walk, num_threads, walk_i, path_q, path_tx,
                   result_q, result_rx, result_tx, wpc, wcur, wout, res, ret, joined,
                   taken>>

\* find_files returns Ok: the path Sender is dropped
FindFilesEnd ==
    /\ main_pc = "find"
    /\ walk_i = Len(walk)
    /\ main_pc' = "collect"
    /\ path_tx' = FALSE
    /\ UNCHANGED <<fileVars, otherVars, walk, num_threads, walk_i, path_q, result_q, result_rx,
                   result_tx, wpc, wcur, wout, res, ret, joined, taken>>

\* the collecting iterator takes one result: an Err ends the function
Collect ==
    /\ main_pc = "collect"
    /\ result_q # <<>>
    /\ result_q' = Tail(result_q)
    /\ IF Head(result_q).ok
       THEN /\ res' = Push(res, Head(result_q))
            /\ UNCHANGED <<main_pc, ret, path_tx, result_rx>>
       ELSE /\ Return("Err(IoError)")
            /\ UNCHANGED res
    /\ UNCHANGED <<fileVars, otherVars, walk, num_threads, walk_i, path_q, result_tx, wpc, wcur,
                   wout, joined, taken>>

\* the collecting iterator ends
CollectEnd ==
    /\ main_pc = "collect"
    /\ ResultsClosed
    /\ main_pc' = "join"
    /\ UNCHANGED <<fileVars, otherVars, walk, num_threads, walk_i, path_q, path_tx, result_q,
                   result_rx, result_tx, wpc, wcur, wout, res, ret, joined, taken>>

\* h.join().unwrap() on the next handle, once its thread has ended
Join ==
    /\ main_pc = "join"
    /\ \E w \in Workers \ joined :
           /\ \A v \in Workers \ joined : w <= v
           /\ wpc[w] \in {"done", "panicked"}
           /\ joined' = joined \cup {w}
           /\ IF wpc[w] = "panicked"
              THEN main_pc' = "returned" /\ ret' = "panic"
              ELSE UNCHANGED <<main_pc, ret>>
    /\ UNCHANGED <<fileVars, otherVars, walk, num_threads, walk_i, path_q, path_tx, result_q,
                   result_rx, result_tx, wpc, wcur, wout, res, taken>>

\* Ok(res)
ReturnOk ==
    /\ main_pc = "join"
    /\ joined = Workers
    /\ Return("Ok")
    /\ UNCHANGED <<fileVars, otherVars, walk, num_threads, walk_i, path_q, result_q, result_tx,
                   wpc, wcur, wout, res, joined, taken>>

\* for p in path_rx: the worker receives a path
WorkerRecv(w) ==
    /\ wpc[w] = "recv"
    /\ path_q # <<>>
    /\ path_q' = Tail(path_q)
    /\ wcur' = [wcur EXCEPT ![w] = Head(path_q)]
    /\ taken' = Append(taken, <<w, Head(path_q)>>)
    /\ wpc' = [wpc EXCEPT ![w] = "check"]
    /\ UNCHANGED <<fileVars, otherVars, walk, num_threads, main_pc, walk_i, path_tx, result_q,
                   result_rx, result_tx, wout, res, ret, joined>>

\* for p in path_rx ends: the thread ends and drops its result Sender
WorkerExit(w) ==
    /\ wpc[w] = "recv"
    /\ path_q = <<>>
    /\ ~path_tx
    /\ wpc' = [wpc EXCEPT ![w] = "done"]
    /\ result_tx' = result_tx \ {w}
    /\ UNCHANGED <<fileVars, otherVars, walk, num_threads, main_pc, walk_i, path_q, path_tx,
                   result_q, result_rx, wcur, wout, res, ret, joined, taken>>

\* the worker opens the file and checks it; a header found is a no op
WorkerCheck(w) ==
    /\ wpc[w] = "check"
    /\ LET out == OpenAndCheck(hdr, walk[wcur[w]])
       IN  IF out = "Ok(true)"
           THEN /\ wpc' = [wpc EXCEPT ![w] = "recv"]
                /\ wcur' = [wcur EXCEPT ![w] = 0]
                /\ UNCHANGED wout
           ELSE /\ wpc' = [wpc EXCEPT ![w] = "send"]
                /\ wout' = [wout EXCEPT ![w] = out]
                /\ UNCHANGED wcur
    /\ UNCHANGED <<fileVars, otherVars, walk, num_threads, main_pc, walk_i, path_q, path_tx,
                   result_q, result_rx, result_tx, res, ret, joined, taken>>

\* result_tx.send(..).unwrap(): a send to a dropped Receiver panics the thread
WorkerSend(w) ==
    /\ wpc[w] = "send"
    /\ IF result_rx
       THEN /\ result_q' = Append(result_q, ResultFor(wcur[w], wout[w]))
            /\ wpc' = [wpc EXCEPT ![w] = "recv"]
            /\ UNCHANGED result_tx
       ELSE /\ wpc' = [wpc EXCEPT ![w] = "panicked"]
            /\ result_tx' = result_tx \ {w}
            /\ UNCHANGED result_q
    /\ wcur' = [wcur EXCEPT ![w] = 0]
    /\ wout' = [wout EXCEPT ![w] = "none"]
    /\ UNCHANGED <<fileVars, otherVars, walk, num_threads, main_pc, walk_i, path_q, path_tx,
                   result_rx, res, ret, joined, taken>>

ScanNext ==
    \/ Spawn
    \/ FindFilesStep
    \/ FindFilesEnd
    \/ Collect
    \/ CollectEnd
    \/ Join
    \/ ReturnOk
    \/ \E w \in Workers : WorkerRecv(w)
    \/ \E w \in Workers : WorkerExit(w)
    \/ \E w \in Workers : WorkerCheck(w)
    \/ \E w \in Workers : WorkerSend(w)

ScanSpec == ScanInit /\ [][ScanNext]_vars

\* a step of the calling thread
MainStep ==
    \/ Spawn
    \/ FindFilesStep
    \/ FindFilesEnd
    \/ Collect
    \/ CollectEnd
    \/ Join
    \/ ReturnOk

\* a step of the thread of worker w
WorkerStep(w) ==
    /\ w \in Workers
    /\ \/ WorkerRecv(w)
       \/ WorkerExit(w)
       \/ WorkerCheck(w)
       \/ WorkerSend(w)

\* the entries of the walks of the fair scan, one for each way an entry can
\* go: a walkdir error, a file with the header (no result is sent), a file
\* without it (a result is sent), a file that cannot be opened (an Err is sent)
FairEntries ==
    { WalkError,
      FileEntry(TRUE, TRUE, <<"a", NL, "b">>),
      FileEntry(TRUE, TRUE, <<"b", NL>>),
      FileEntry(TRUE, FALSE, <<>>) }

FairScanInit ==
    /\ ScanInit
    /\ \A p \in 1..Len(walk) : walk[p] \in FairEntries

\* the scan with threads the scheduler does not starve: a thread that can take
\* a step takes one
FairScanSpec ==
    /\ FairScanInit
    /\ [][ScanNext]_vars
    /\ WF_vars(MainStep)
    /\ \A w \in 1..MaxThreads : WF_vars(WorkerStep(w))

----------------------------------------------------------------------------
(* BatchSpec: add_headers_recursively and delete_headers_recursively       *)
(*                                                                          *)
(* The tree under root is a sequence of nodes, each with the index of its   *)
(* parent directory (0: root) and its entry.  walkdir yields root and then  *)
(* every node, a directory before what it holds; a path is an index of the  *)
(* walk, as in ScanSpec.                                                    *)

\* a directory and what path_predicate would say about it
TreeDir(accept) == [kind |-> "dir", accept |-> accept]

\* a file: what path_predicate says, its path and its bytes
TreeFile(accept, p, bytes) ==
    [kind |-> "file", accept |-> accept, open |-> TRUE, bytes |-> bytes, path |-> p]

PyPath == [extension |-> "py", file_name |-> "f.py"]
ZzzPath == [extension |-> "zzz", file_name |-> "f.zzz"]

\* the block of ScanHeader in a py file
PyBlock == EffectiveDeleteHeader(wrap_header(ScanHeader.header, header_delimiters(PyPath)))

\* the entries trees are made of
TreeEntries ==
    { WalkError,
      TreeDir(TRUE),
      TreeDir(FALSE),
      TreeFile(FALSE, PyPath, <<"b", NL>>),
      TreeFile(FALSE, PyPath, PyBlock \o <<"b", NL>>),
      TreeFile(TRUE, PyPath, <<"b", NL>>),
      TreeFile(TRUE, PyPath, PyBlock \o <<"b", NL>>),
      TreeFile(TRUE, ZzzPath, <<"b", NL>>),
      TreeFile(TRUE, PyPath, <<BAD>>) }

\* the trees of at most n nodes: a node's parent is root or an earlier directory
RECURSIVE TreesOf(_)
TreesOf(n) ==
    IF n = 0 THEN { <<>> }
    ELSE LET S == TreesOf(n - 1)
         IN  S \cup UNION { { Append(t, [parent |-> k, entry |-> e]) :
                                  k \in {0} \cup { j \in 1..Len(t) :
                                                     t[j].entry.kind = "dir" },
                                  e \in TreeEntries } : t \in S }

\* the entry walkdir yields for node n
EntryOf(t, n) ==
    [f \in DOMAIN t[n].entry \cup {"node"} |->
        IF f = "node" THEN n ELSE t[n].entry[f]]

\* walkdir::WalkDir::new(root).into_iter(): root, then the nodes depth first;
\* nothing is filtered and every directory is entered.  WalkUnder(t, d, from)
\* is the walk of the nodes of directory d numbered from `from` on
RECURSIVE WalkUnder(_, _, _)
WalkUnder(t, d, from) ==
    LET rest == { n \in from..Len(t) : t[n].parent = d }
    IN  IF rest = {} THEN <<>>
        ELSE LET n == CHOOSE m \in rest : \A k \in rest : m <= k
             IN  <<EntryOf(t, n)>>
                 \o (IF t[n].entry.kind = "dir" THEN WalkUnder(t, n, 1) ELSE <<>>)
                 \o WalkUnder(t, d, n + 1)

WalkDir(t) ==
    <<[kind |-> "dir", accept |-> TRUE, node |-> 0]>> \o WalkUnder(t, 0, 1)

\* the closure handed to recursive_optional_operation, applied to the file of
\* entry e with bytes c
Operate(op, h, e, c) ==
    IF ~e.open THEN [ret |-> "Err(IoError)", contents |-> c]
    ELSE IF op = "add" THEN add_header_if_missing(h, e.path, c)
    ELSE delete_header_if_present(h, e.path, c)

\* a closure that passes every path on which the operation did not fail
FilterMap_KeepAll(r) ==
    IF r.ret \in {"Ok(true)", "Ok(false)"} THEN "Some(Ok)" ELSE "Some(Err)"

\* a closure that drops errors
FilterMap_DropErrors(r) ==
    IF r.ret = "Ok(true)" THEN "Some(Ok)" ELSE "None"

\* the closure of filter_map, on the result r of the operation
FilterMap(r) ==
    IF r.ret = "Ok(true)" THEN "Some(Ok)"
    ELSE IF r.ret = "Ok(false)" THEN "None"
    ELSE "Some(Err)"

BatchInit ==
    /\ hdr = ScanHeader
    /\ path = [extension |-> "", file_name |-> "root"]
    /\ contents = <<>>
    /\ calls = <<>>
    /\ tree \in TreesOf(MaxNodes)
    /\ walk = WalkDir(tree)
    /\ disk = [p \in 1..Len(walk) |->
                  IF walk[p].kind = "file" THEN walk[p].bytes ELSE <<>>]
    /\ operation \in {"add", "delete"}
    /\ changed = <<>>
    /\ applied = <<>>
    /\ num_threads = 0
    /\ main_pc = "find"
    /\ walk_i = 0
    /\ path_q = <<>>
    /\ path_tx = TRUE
    /\ result_q = <<>>
    /\ result_rx = FALSE
    /\ result_tx = {}
    /\ wpc = <<>>
    /\ wcur = <<>>
    /\ wout = <<>>
    /\ res = [no_header_files |-> <<>>, binary_files |-> <<>>]
    /\ ret = "none"
    /\ joined = {}
    /\ taken = <<>>
    /\ eval = NoEval

\* an operation that runs while find_files is still walking
AfterFindFiles_Streaming == main_pc \in {"find", "collect"}

\* find_files(root, path_predicate, path_tx)? has returned Ok: the iterator
\* over path_rx is made only then
AfterFindFiles == main_pc = "collect"

\* the collecting iterator takes the next path and applies the operation: a
\* path the operation changed is kept, an error ends the function
BatchApply ==
    /\ AfterFindFiles
    /\ operation # "none"
    /\ path_q # <<>>
    /\ LET p == Head(path_q)
           r == Operate(operation, hdr, walk[p], disk[p])
       IN  /\ path_q' = Tail(path_q)
           /\ applied' = Append(applied, p)
           /\ disk' = [disk EXCEPT ![p] = r.contents]
           /\ IF FilterMap(r) = "Some(Err)"
              THEN /\ Return(r.ret)
                   /\ UNCHANGED changed
              ELSE /\ changed' = IF FilterMap(r) = "Some(Ok)"
                                 THEN Append(changed, p) ELSE changed
                   /\ UNCHANGED <<main_pc, ret, path_tx, result_rx>>
    /\ UNCHANGED <<fileVars, eval, tree, operation, walk, num_threads, walk_i,
                   result_q, result_tx, wpc, wcur, wout, res, joined, taken>>

\* the path channel is empty and its Sender dropped: Ok(changed) is returned
BatchEnd ==
    /\ main_pc = "collect"
    /\ operation # "none"
    /\ path_q = <<>>
    /\ Return("Ok")
    /\ UNCHANGED <<fileVars, otherVars, walk, num_threads, walk_i, path_q, result_q,
                   result_tx, wpc, wcur, wout, res, joined, taken>>

BatchNext ==
    \/ FindFilesStep
    \/ FindFilesEnd
    \/ BatchApply
    \/ BatchEnd

BatchSpec == BatchInit /\ [][BatchNext]_vars

----------------------------------------------------------------------------
(* EvalSpec: one call of SingleLineChecker::check, wrap_header or           *)
(* header_delimiters on an argument drawn in the initial state              *)

\* the texts of at most n pieces
Texts(pieces, n) == FilesOf({ <<c>> : c \in pieces }, n)

\* arguments of check: a checker and the bytes of a reader
CheckArgs ==
    { [checker |-> [pattern |-> pattern, max_lines |-> max_lines], input |-> input] :
        pattern \in Patterns, max_lines \in 0..MaxLines,
        input \in Texts({"a", SP, NL, BAD}, MaxLines + 1) }

\* the extensions of the match of header_delimiters
Extensions ==
    { "c", "h", "gv", "java", "scala", "kt", "kts",
      "js", "mjs", "cjs", "jsx", "tsx", "css", "scss", "sass", "ts",
      "cc", "cpp", "cs", "go", "hcl", "hh", "hpp", "m", "mm", "proto", "rs",
      "swift", "dart", "groovy", "v", "sv",
      "py", "sh", "yaml", "yml", "dockerfile", "rb", "gemfile", "tcl", "tf", "bzl",
      "pl", "pp", "build",
      "el", "lisp", "erl", "hs", "lua", "sql", "sdl",
      "html", "xml", "vue", "wxi", "wxl", "wxs", "php",
      "ml", "mli", "mll", "mly" }

\* arguments of header_delimiters: a file name with each extension of the
\* match, with extensions in another case or not in the match, and file
\* names without an extension
PathArgs ==
    { [extension |-> e, file_name |-> "f." \o e] :
        e \in Extensions \cup {"C", "PY", "Rs", "HTML", "Dockerfile", "zzz", "txt"} }
    \cup { [extension |-> "", file_name |-> n] :
             n \in {"Dockerfile", "dockerfile", "DOCKERFILE", "Makefile"} }
    \cup { [extension |-> "zzz", file_name |-> "Dockerfile.zzz"] }

\* arguments of wrap_header: a header text and the delimiters of a path
WrapArgs ==
    { [text |-> text, delim |-> header_delimiters(p)] :
        text \in Texts({"a", SP, TAB, NL}, MaxLines + 1)
                 \cup { <<"L", "1", NL, "L", "2">> },
        p \in { q \in PathArgs : header_delimiters(q) # None } }

EvalInit ==
    /\ hdr = ScanHeader
    /\ path = [extension |-> "", file_name |-> "root"]
    /\ contents = <<>>
    /\ calls = <<>>
    /\ ScanIdle
    /\ BatchIdle
    /\ eval \in { [fn |-> "check", arg |-> a, called |-> FALSE] : a \in CheckArgs }
           \cup { [fn |-> "wrap_header", arg |-> a, called |-> FALSE] : a \in WrapArgs }
           \cup { [fn |-> "header_delimiters", arg |-> a, called |-> FALSE] :
                    a \in PathArgs }

\* the result of the call
Called(out) ==
    /\ ~eval.called
    /\ eval' = [fn |-> eval.fn, arg |-> eval.arg, called |-> TRUE, out |-> out]
    /\ UNCHANGED <<fileVars, scanVars, batchVars>>

CallCheck ==
    /\ eval.fn = "check"
    /\ Called(check(eval.arg.checker, eval.arg.input))

CallWrapHeader ==
    /\ eval.fn = "wrap_header"
    /\ Called(wrap_header(eval.arg.text, eval.arg.delim))

CallHeaderDelimiters ==
    /\ eval.fn = "header_delimiters"
    /\ Called(header_delimiters(eval.arg))

EvalNext == CallCheck \/ CallWrapHeader \/ CallHeaderDelimiters

EvalSpec == EvalInit /\ [][EvalNext]_vars

----------------------------------------------------------------------------
(* Properties of add_header_if_missing and delete_header_if_present (Spec)  *)

\* the path has delimiters
Recognized == header_delimiters(path) # None

\* the wrapped header for the path; used only where Recognized
Wrapped == wrap_header(hdr.header, header_delimiters(path))

\* the exact block deletion looks for: the wrapped header and one newline
Block == Wrapped \o <<NL>>

\* position i starts a line of s
LineStart(s, i) == i \in 1..Len(s) /\ (i = 1 \/ s[i - 1] = NL)

\* the number of the line of s that position i lies in, counted from 1
LineNo(s, i) == 1 + Cardinality({ k \in 1..(i - 1) : s[k] = NL })

\* the first line of s, without its newline
FirstLineOf(s) ==
    LET ends == { k \in 1..Len(s) : s[k] = NL }
    IN  IF ends = {} THEN s
        ELSE SubSeq(s, 1, (CHOOSE k \in ends : \A m \in ends : k <= m) - 1)

\* pat lies inside one of the first n lines of s, a line taken with its newline
PatternInFirstLines(s, pat, n) ==
    \E j \in 1..(Len(s) + 1) :
        /\ OccursAt(s, pat, j)
        /\ j <= Len(s)
        /\ LineNo(s, j) <= n
        /\ \A k \in j..(j + Len(pat) - 2) : s[k] # NL

\* k bytes of c are a magic first line with its newline (k = 0: nothing kept)
KeptLine(c, k) ==
    \/ k = 0
    \/ /\ k \in 1..Len(c)
       /\ c[k] = NL
       /\ \A m \in 1..(k - 1) : c[m] # NL
       /\ IsMagic(SubSeq(c, 1, k - 1))

\* the layout of an insertion: kept line, wrapped header, one newline, the rest
Layout(call, k) ==
    /\ KeptLine(call.before, k)
    /\ call.after = SubSeq(call.before, 1, k) \o Wrapped \o <<NL>>
                    \o From(call.before, k + 1)

Added(call) == call.op = "add" /\ call.ret = "Ok(true)"

Deleted(call) == call.op = "delete" /\ call.ret = "Ok(true)"

\* the checker can see the header the call inserted: the pattern lies in one of
\* the first max_lines lines of the kept line followed by the wrapped header
Detectable(call) ==
    \E k \in 0..Len(call.before) :
        /\ Layout(call, k)
        /\ PatternInFirstLines(SubSeq(call.before, 1, k) \o Wrapped,
                               hdr.checker.pattern, hdr.checker.max_lines)

\* C1 as stated: after add_header_if_missing has added the header to a file,
\* delete_header_if_present with the same Header restores the original bytes,
\* for every Header
C1_RoundTripAnyHeader ==
    (Len(calls) = 2 /\ Added(calls[1]) /\ calls[2].op = "delete")
        => calls[2].after = calls[1].before

\* C1 amended: when the checker can see the inserted header, add followed by
\* delete restores the original bytes, and the delete reports a change
C1_RoundTrip ==
    (Len(calls) = 2 /\ Added(calls[1]) /\ Detectable(calls[1])
                    /\ calls[2].op = "delete")
        => /\ calls[2].ret = "Ok(true)"
           /\ calls[2].after = calls[1].before

C1_Witness ==
    /\ Len(calls) = 2
    /\ Added(calls[1])
    /\ Detectable(calls[1])
    /\ calls[2].op = "delete"
    /\ IsMagic(FirstLineOf(calls[1].before))
    /\ Len(calls[1].before) > Len(FirstLineOf(calls[1].before)) + 1

\* C2 as stated: of two successive successful calls of add_header_if_missing
\* the second returns changed=false and leaves the bytes of the first, for
\* every Header
C2_AddTwiceAnyHeader ==
    (Len(calls) = 2 /\ calls[1].op = "add" /\ calls[2].op = "add"
                    /\ calls[1].ret \in {"Ok(true)", "Ok(false)"})
        => /\ calls[2].ret = "Ok(false)"
           /\ calls[2].after = calls[1].after

\* C2 amended: when the first call found the header present, or added a header
\* the checker can see, the second call returns changed=false and leaves the
\* bytes as the first call left them
C2_AddTwice ==
    (Len(calls) = 2 /\ calls[1].op = "add" /\ calls[2].op = "add"
                    /\ \/ calls[1].ret = "Ok(false)"
                       \/ Added(calls[1]) /\ Detectable(calls[1]))
        => /\ calls[2].ret = "Ok(false)"
           /\ calls[2].after = calls[1].after

C2_Witness ==
    /\ Len(calls) = 2
    /\ Added(calls[1])
    /\ Detectable(calls[1])
    /\ calls[2].op = "add"
    /\ calls[2].ret = "Ok(false)"

\* C6 as stated: whenever add_header_if_missing returns changed=true,
\* header_present on the resulting bytes is true, for every Header
C6_PresentAfterAddAnyHeader ==
    \A i \in 1..Len(calls) :
        Added(calls[i]) => header_present(hdr, calls[i].after) = "Ok(true)"

\* C6 amended: whenever add_header_if_missing returns changed=true and the
\* checker can see the inserted header, header_present on the result is true
C6_PresentAfterAdd ==
    \A i \in 1..Len(calls) :
        (Added(calls[i]) /\ Detectable(calls[i]))
            => header_present(hdr, calls[i].after) = "Ok(true)"

\* the pattern is met on the very last line the checker reads
C6_Witness ==
    \E i \in 1..Len(calls) :
        /\ Added(calls[i])
        /\ Detectable(calls[i])
        /\ ~PatternInFirstLines(calls[i].after, hdr.checker.pattern,
                                hdr.checker.max_lines - 1)
        /\ IsMagic(FirstLineOf(calls[i].before))

\* s begins with t
StartsWith(s, t) == OccursAt(s, t, 1)

\* C7: after add_header_if_missing has added the header, a first line with a
\* magic marker is still the first line and the wrapped header begins at
\* line 2; without a marker the wrapped header begins at line 1
C7_MagicLineKept ==
    \A i \in 1..Len(calls) :
        Added(calls[i]) =>
            IF IsMagic(FirstLineOf(calls[i].before))
            THEN StartsWith(calls[i].after,
                            FirstLineOf(calls[i].before) \o <<NL>> \o Wrapped)
            ELSE StartsWith(calls[i].after, Wrapped)

\* C8: whenever add_header_if_missing returns changed=true the new bytes are
\* M + W + one newline + R with M + R the old bytes and M a magic first line
\* with its newline, or empty
C8_AddLayout ==
    \A i \in 1..Len(calls) :
        Added(calls[i]) =>
            /\ \E k \in 0..Len(calls[i].before) : Layout(calls[i], k)
            /\ Len(calls[i].after) = Len(calls[i].before) + Len(Wrapped) + 1

C8_Witness ==
    \E i \in 1..Len(calls) :
        /\ Added(calls[i])
        /\ \E k \in 1..Len(calls[i].before) :
               Layout(calls[i], k) /\ k < Len(calls[i].before)

Occurrences(s) == { j \in 1..Len(s) : OccursAt(s, Block, j) }

\* C10: whenever delete_header_if_present returns changed=true the new bytes
\* are the old ones without the leftmost occurrence of the block
C10_DeleteFirstOccurrence ==
    \A i \in 1..Len(calls) :
        Deleted(calls[i]) =>
            \E j \in Occurrences(calls[i].before) :
                /\ \A m \in Occurrences(calls[i].before) : j <= m
                /\ calls[i].after =
                       SubSeq(calls[i].before, 1, j - 1)
                       \o From(calls[i].before, j + Len(Block))

\* a later occurrence of the block is left in place
C10_Witness ==
    \E i \in 1..Len(calls) :
        /\ Deleted(calls[i])
        /\ Cardinality(Occurrences(calls[i].before)) >= 2
        /\ Occurrences(calls[i].after) # {}

\* the checker's verdict on the bytes a call found, told from the bytes alone
Seen(call) ==
    PatternInFirstLines(call.before, hdr.checker.pattern, hdr.checker.max_lines)

\* C11 as stated: for a path without a delimiter mapping, add_header_if_missing
\* and delete_header_if_present yield UnrecognizedExtension for every readable
\* file content
C11_UnknownExtensionAnyContent ==
    \A i \in 1..Len(calls) :
        (~Recognized /\ ValidUtf8(calls[i].before))
            => calls[i].ret = "Err(UnrecognizedExtension)"

\* C11 amended: the checker is asked before the delimiters are looked up and
\* its verdict does not depend on the path. On readable content add returns
\* changed=false exactly when the pattern is in the first max_lines lines, and
\* delete returns changed=false when it is not, whatever the extension; for a
\* path without a delimiter mapping the remaining calls (add without the
\* header, delete with it) yield UnrecognizedExtension, and the bytes stay
C11_UnknownExtension ==
    \A i \in 1..Len(calls) :
        ValidUtf8(calls[i].before) =>
            /\ calls[i].op = "add" => (calls[i].ret = "Ok(false)" <=> Seen(calls[i]))
            /\ (calls[i].op = "delete" /\ ~Seen(calls[i]))
                   => calls[i].ret = "Ok(false)"
            /\ ~Recognized =>
                   /\ calls[i].after = calls[i].before
                   /\ calls[i].ret =
                          IF (calls[i].op = "add") <=> Seen(calls[i])
                          THEN "Ok(false)"
                          ELSE "Err(UnrecognizedExtension)"

\* on a path without a mapping: an add that found the header and said so, then
\* a delete of the same file that yields UnrecognizedExtension
C11_Witness ==
    /\ Len(calls) = 2
    /\ ~Recognized
    /\ calls[1].op = "add"
    /\ calls[1].ret = "Ok(false)"
    /\ calls[2].op = "delete"
    /\ calls[2].ret = "Err(UnrecognizedExtension)"

\* C15 as stated: if the checker reports the header present in a file,
\* add_header_if_missing returns changed=false and leaves the bytes alone
C15_PresentMeansFalse ==
    \A i \in 1..Len(calls) :
        (calls[i].op = "add" /\ header_present(hdr, calls[i].before) = "Ok(true)")
            => /\ calls[i].ret = "Ok(false)"
               /\ calls[i].after = calls[i].before

\* C15 amended: if the checker reports the header present in a file, then
\* add_header_if_missing leaves the bytes alone, and it returns changed=false
\* when the whole file is valid UTF-8 and IoError when it is not
C15_PresentLeavesFile ==
    \A i \in 1..Len(calls) :
        (calls[i].op = "add" /\ header_present(hdr, calls[i].before) = "Ok(true)")
            => /\ calls[i].after = calls[i].before
               /\ calls[i].ret = IF ValidUtf8(calls[i].before)
                                 THEN "Ok(false)"
                                 ELSE "Err(IoError)"

\* a second add on the file the first add wrote the header to
C15_Witness ==
    /\ Len(calls) = 2
    /\ calls[1].op = "add"
    /\ calls[2].op = "add"
    /\ header_present(hdr, calls[2].before) = "Ok(true)"
    /\ Recognized
    /\ Added(calls[1])
    /\ calls[2].ret = "Ok(false)"

\* C16 as stated: of two successive calls of delete_header_if_present the
\* second returns changed=false and leaves the bytes of the first, for every
\* Header and file
C16_DeleteTwiceAnyFile ==
    (Len(calls) = 2 /\ calls[1].op = "delete" /\ calls[2].op = "delete"
                    /\ calls[1].ret \in {"Ok(true)", "Ok(false)"})
        => /\ calls[2].ret = "Ok(false)"
           /\ calls[2].after = calls[1].after

\* C16 amended: when the first call returned changed=false, or removed a block
\* and left bytes that hold no further occurrence of the block, the second
\* call returns changed=false and leaves the bytes as the first call left them
C16_DeleteTwice ==
    (Len(calls) = 2 /\ calls[1].op = "delete" /\ calls[2].op = "delete"
                    /\ \/ calls[1].ret = "Ok(false)"
                       \/ Deleted(calls[1]) /\ Occurrences(calls[1].after) = {})
        => /\ calls[2].ret = "Ok(false)"
           /\ calls[2].after = calls[1].after

\* the header is still reported present after the block has gone
C16_Witness ==
    /\ Len(calls) = 2
    /\ Deleted(calls[1])
    /\ Occurrences(calls[1].after) = {}
    /\ Seen(calls[2])
    /\ calls[2].op = "delete"
    /\ calls[2].ret = "Ok(false)"

\* C23: whenever add_header_if_missing or delete_header_if_present returns
\* UnrecognizedExtension, or IoError because the file is not valid UTF-8, the
\* bytes of the file are those it had before the call; IoError is returned
\* exactly for the files that are not valid UTF-8 and UnrecognizedExtension
\* only for paths without delimiters
C23_ErrorsLeaveFile ==
    /\ \A i \in 1..Len(calls) :
           /\ calls[i].ret \in {"Err(IoError)", "Err(UnrecognizedExtension)"}
                  => calls[i].after = calls[i].before
           /\ calls[i].ret = "Err(IoError)" <=> ~ValidUtf8(calls[i].before)
           /\ calls[i].ret = "Err(UnrecognizedExtension)" => ~Recognized
    /\ calls # <<>> => contents = calls[Len(calls)].after

\* an add refused for the extension on a file that is not empty, and a delete
\* that then finds the file as it was, without the header
C23_Witness ==
    /\ Len(calls) = 2
    /\ calls[1].before # <<>>
    /\ calls[1].op = "add"
    /\ calls[2].op = "delete"
    /\ calls[1].ret = "Err(UnrecognizedExtension)"
    /\ calls[2].ret = "Ok(false)"

----------------------------------------------------------------------------
(* Properties of check_headers_recursively (ScanSpec)                       *)

\* the number of times x is in the sequence q
Count(q, x) == Cardinality({ i \in 1..Len(q) : q[i] = x })

\* the elements of the sequence q
Range(q) == { q[i] : i \in 1..Len(q) }

\* the paths find_files emits: the accepted non-directories of the walk
Enumerated ==
    { p \in 1..Len(walk) : walk[p].kind = "file" /\ walk[p].accept }

\* the function has returned r
Returned(r) == main_pc = "returned" /\ ret = r

\* a worker's thread has ended
Ended(w) == wpc[w] \in {"done", "panicked"}

\* C3: when check_headers_recursively returns an error, every spawned worker
\* has ended and has been joined
C3_ErrorAfterJoin ==
    (Returned("Err(IoError)") \/ Returned("Err(WalkdirError)"))
        => \A w \in Workers : Ended(w) /\ w \in joined

\* C4: when check_headers_recursively with at least one worker returns Ok,
\* every enumerated path was received by exactly one worker and is once in
\* no_header_files when the header is absent, once in binary_files when the
\* check failed with InvalidData, and in neither list when the header was
\* found; nothing else is in the lists
C4_EachPathOnce ==
    (Returned("Ok") /\ num_threads >= 1) =>
        \A p \in 1..Len(walk) :
            LET out == OpenAndCheck(hdr, walk[p])
                n == Count(res.no_header_files, p)
                b == Count(res.binary_files, p)
            IN  IF p \in Enumerated
                THEN /\ Cardinality({ i \in 1..Len(taken) : taken[i][2] = p }) = 1
                     /\ n = (IF out = "Ok(false)" THEN 1 ELSE 0)
                     /\ b = (IF out = "Err(InvalidData)" THEN 1 ELSE 0)
                     /\ out \in {"Ok(true)", "Ok(false)", "Err(InvalidData)"}
                ELSE n = 0 /\ b = 0

\* two workers shared the work and both lists were filled
C4_Witness ==
    /\ Returned("Ok")
    /\ num_threads >= 2
    /\ res.no_header_files # <<>>
    /\ res.binary_files # <<>>
    /\ \E i, j \in 1..Len(taken) : taken[i][1] # taken[j][1]

\* the scan of the walk by one thread, path after path
RECURSIVE ScanInOrder(_, _)
ScanInOrder(p, results) ==
    IF p > Len(walk) THEN results
    ELSE IF p \notin Enumerated THEN ScanInOrder(p + 1, results)
    ELSE LET out == OpenAndCheck(hdr, walk[p])
         IN  ScanInOrder(p + 1,
                 IF out = "Ok(false)"
                 THEN [results EXCEPT !.no_header_files = Append(@, p)]
                 ELSE IF out = "Err(InvalidData)"
                 THEN [results EXCEPT !.binary_files = Append(@, p)]
                 ELSE results)

InOrder == ScanInOrder(1, [no_header_files |-> <<>>, binary_files |-> <<>>])

\* the walk has no fatal error: no walkdir error, no file that cannot be read
NoFatalError ==
    \A p \in 1..Len(walk) :
        /\ walk[p].kind # "err"
        /\ p \in Enumerated
               => OpenAndCheck(hdr, walk[p])
                      \in {"Ok(true)", "Ok(false)", "Err(InvalidData)"}

\* C5: without a fatal error, whatever the number of workers and the
\* interleaving, the function returns Ok with the same set of no_header_files
\* and the same set of binary_files as a scan of the paths in order
C5_SameSetsAnyWorkers ==
    (main_pc = "returned" /\ num_threads >= 1 /\ NoFatalError) =>
        /\ ret = "Ok"
        /\ Range(res.no_header_files) = Range(InOrder.no_header_files)
        /\ Range(res.binary_files) = Range(InOrder.binary_files)

\* a run whose list is not in the order of the walk
C5_Witness ==
    /\ Returned("Ok")
    /\ num_threads >= 2
    /\ NoFatalError
    /\ res.no_header_files # InOrder.no_header_files
    /\ Len(res.no_header_files) >= 2

\* a line of s that is not UTF-8 is among the first n lines, and no line before
\* it holds pat: the checker reads it before it decides
InvalidLineRead(s, pat, n) ==
    \E i \in 1..Len(s) :
        /\ s[i] = BAD
        /\ LineNo(s, i) <= n
        /\ ~PatternInFirstLines(s, pat, LineNo(s, i) - 1)

\* no walkdir error, and every enumerated file can be opened
NoWalkOrOpenError ==
    \A p \in 1..Len(walk) :
        /\ walk[p].kind # "err"
        /\ p \in Enumerated => walk[p].open

----------------------------------------------------------------------------
(* Properties of find_files and of add_headers_recursively and             *)
(* delete_headers_recursively (BatchSpec)                                   *)

\* every path find_files has sent, in the order sent
Sent == applied \o path_q

\* the bytes the file of path p had when the function was called
Original(p) == walk[p].bytes

\* the checker sees the header in the original bytes of p
SeenIn(p) ==
    PatternInFirstLines(Original(p), hdr.checker.pattern, hdr.checker.max_lines)

\* the path of p has delimiters
RecognizedPath(p) == header_delimiters(walk[p].path) # None

\* the operation, applied to the original file of p, fails
WouldFail(p) ==
    \/ ~ValidUtf8(Original(p))
    \/ ~RecognizedPath(p) /\ (operation = "add" <=> ~SeenIn(p))

\* the operation, applied to the original file of p, changes it
WouldChange(p) ==
    /\ ValidUtf8(Original(p))
    /\ RecognizedPath(p)
    /\ IF operation = "add" THEN ~SeenIn(p)
       ELSE /\ SeenIn(p)
            /\ Contains(Original(p),
                        wrap_header(hdr.header, header_delimiters(walk[p].path))
                            \o <<NL>>)

\* the walk has no walkdir error
NoTraversalError == \A n \in 1..Len(tree) : tree[n].entry.kind # "err"

\* C13: once the operation on a path has failed the function returns that
\* error; it is the first path in enumeration order that fails, no later
\* enumerated path has been operated on or modified, and every earlier path
\* the operation changed keeps its changed bytes
C13_StopAtFirstError ==
    (main_pc = "returned" /\ NoTraversalError) =>
        /\ (\E p \in Enumerated : WouldFail(p))
               <=> ret \in {"Err(IoError)", "Err(UnrecognizedExtension)"}
        /\ ret \in {"Err(IoError)", "Err(UnrecognizedExtension)"} =>
               LET k == Len(applied)
               IN  /\ k >= 1
                   /\ WouldFail(applied[k])
                   /\ ret = IF ValidUtf8(Original(applied[k]))
                            THEN "Err(UnrecognizedExtension)"
                            ELSE "Err(IoError)"
                   /\ \A i \in 1..(k - 1) :
                          /\ ~WouldFail(applied[i])
                          /\ WouldChange(applied[i]) =>
                                 /\ disk[applied[i]] # Original(applied[i])
                                 /\ disk[applied[i]] =
                                        Operate(operation, hdr, walk[applied[i]],
                                                Original(applied[i])).contents
                   /\ Range(Sent) = Enumerated
                   /\ \A i, j \in 1..Len(Sent) : i < j => Sent[i] < Sent[j]
                   /\ \A i \in 1..Len(path_q) : disk[path_q[i]] = Original(path_q[i])

\* a file was changed, the next one failed, and a third was never reached
C13_Witness ==
    /\ main_pc = "returned"
    /\ ret \in {"Err(IoError)", "Err(UnrecognizedExtension)"}
    /\ Len(applied) >= 2
    /\ disk[applied[1]] # Original(applied[1])
    /\ \E i \in 1..Len(path_q) : WouldChange(path_q[i])

\* C14: on Ok the returned list holds, once each, exactly the accepted files
\* the operation changed; a file is modified exactly when it is listed, so
\* files left unchanged and files the predicate rejects are neither listed
\* nor modified
C14_ChangedList ==
    (main_pc = "returned" /\ ret = "Ok") =>
        \A p \in 1..Len(walk) :
            /\ Count(changed, p) =
                   (IF p \in Enumerated /\ WouldChange(p) THEN 1 ELSE 0)
            /\ walk[p].kind = "file" =>
                   (disk[p] # Original(p) <=> Count(changed, p) = 1)

\* one file was changed, one accepted file was left as it was, and one file
\* the operation would have changed was rejected by the predicate
C14_Witness ==
    /\ main_pc = "returned"
    /\ ret = "Ok"
    /\ changed # <<>>
    /\ \E p \in Enumerated : Count(changed, p) = 0
    /\ \E p \in 1..Len(walk) :
           /\ walk[p].kind = "file"
           /\ ~walk[p].accept
           /\ WouldChange(p)

\* the first walkdir error of the walk
ErrAt == CHOOSE p \in 1..Len(walk) :
             /\ walk[p].kind = "err"
             /\ \A q \in 1..(p - 1) : walk[q].kind # "err"

\* C17: find_files never sends a directory or an entry the predicate rejects
\* and sends no path twice; without a traversal error, once it has returned,
\* every accepted file of the tree, at any depth and whatever the predicate
\* says about the directories above it, has been sent exactly once; with a
\* traversal error it returns the error, having sent only paths that come
\* before the error in the walk
C17_FindFiles ==
    /\ \A i \in 1..Len(Sent) :
           /\ walk[Sent[i]].kind = "file"
           /\ walk[Sent[i]].accept
           /\ Count(Sent, Sent[i]) = 1
    /\ (NoTraversalError /\ main_pc \in {"collect", "returned"}) =>
           \A n \in 1..Len(tree) :
               (tree[n].entry.kind = "file" /\ tree[n].entry.accept) =>
                   Cardinality({ i \in 1..Len(Sent) : walk[Sent[i]].node = n }) = 1
    /\ ~NoTraversalError =>
           /\ main_pc # "collect"
           /\ walk_i < ErrAt
           /\ main_pc = "returned" =>
                  /\ ret = "Err(WalkdirError)"
                  /\ walk_i = ErrAt - 1
                  /\ \A p \in Enumerated : p < ErrAt <=> Count(Sent, p) = 1

\* find_files has returned Ok after sending a file that lies in a directory
\* the predicate rejects, listed after a later node of root
C17_Witness ==
    /\ main_pc = "collect"
    /\ \E i \in 1..Len(Sent) :
           LET n == walk[Sent[i]].node
           IN  /\ tree[n].parent # 0
               /\ ~tree[tree[n].parent].entry.accept
               /\ \E m \in 1..(n - 1) : tree[m].parent = 0 /\ m > tree[n].parent

----------------------------------------------------------------------------
(* Properties of SingleLineChecker::check, wrap_header and                 *)
(* header_delimiters (EvalSpec)                                             *)

\* the number of lines of s: a last line need not end in a newline
NumLines(s) == IF s = <<>> THEN 0 ELSE LineNo(s, Len(s))

\* line j of s, taken with its newline, contains pat
LineHasPattern(s, pat, j) ==
    \E i \in 1..Len(s) :
        /\ OccursAt(s, pat, i)
        /\ LineNo(s, i) = j
        /\ \A k \in i..(i + Len(pat) - 2) : s[k] # NL

\* line j of s is not valid UTF-8
LineInvalid(s, j) == \E i \in 1..Len(s) : s[i] = BAD /\ LineNo(s, i) = j

\* the first n lines of s, each with its newline
FirstLines(s, n) ==
    LET ends == { i \in 1..Len(s) : s[i] = NL /\ LineNo(s, i) = n }
    IN  IF n = 0 THEN <<>>
        ELSE IF ends = {} THEN s
        ELSE SubSeq(s, 1, CHOOSE i \in ends : TRUE)

\* the line at which check decides: the first of the first n lines that holds
\* the pattern or is not valid UTF-8, else the last line it may read
DecidingLine(s, pat, n) ==
    LET last == IF NumLines(s) < n THEN NumLines(s) ELSE n
        hits == { j \in 1..last : LineHasPattern(s, pat, j) \/ LineInvalid(s, j) }
    IN  IF hits = {} THEN last ELSE CHOOSE j \in hits : \A k \in hits : j <= k

CheckCalled == eval.fn = "check" /\ eval.called

\* C18 as stated: check returns true exactly when one of the first max_lines
\* lines of the input contains the pattern
C18_TrueIffPatternInWindow ==
    CheckCalled =>
        (eval.out = "Ok(true)"
            <=> \E j \in 1..eval.arg.checker.max_lines :
                    LineHasPattern(eval.arg.input, eval.arg.checker.pattern, j))

\* C18 amended: check returns true exactly when one of the first max_lines
\* lines contains the pattern and neither that line nor a line before it is
\* invalid UTF-8; it fails with InvalidData exactly when one of the first
\* max_lines lines is invalid UTF-8 and no line before it contains the
\* pattern; otherwise it returns false; and what follows the line at which it
\* decides (the first line with the pattern or invalid bytes, or line
\* max_lines) has no influence on the result
C18_Check ==
    CheckCalled =>
        LET s == eval.arg.input
            pat == eval.arg.checker.pattern
            n == eval.arg.checker.max_lines
            d == DecidingLine(s, pat, n)
            read == FirstLines(s, d)
        IN  /\ eval.out = "Ok(true)"
                   <=> \E j \in 1..n :
                           /\ LineHasPattern(s, pat, j)
                           /\ \A k \in 1..j : ~LineInvalid(s, k)
            /\ eval.out = "Err(InvalidData)"
                   <=> \E j \in 1..n :
                           /\ LineInvalid(s, j)
                           /\ \A k \in 1..(j - 1) : ~LineHasPattern(s, pat, k)
            /\ eval.out \in {"Ok(true)", "Ok(false)", "Err(InvalidData)"}
            /\ check(eval.arg.checker, read) = eval.out
            /\ ( (d = n \/ LineHasPattern(s, pat, d) \/ LineInvalid(s, d))
                 /\ (read = <<>> \/ read[Len(read)] = NL) ) =>
                   \A more \in {pat, <<BAD>>, <<NL, BAD>> \o pat} :
                       check(eval.arg.checker, read \o more) = eval.out

\* the pattern is on the last line the checker may read, and the lines after
\* it are not valid UTF-8
C18_Witness ==
    /\ CheckCalled
    /\ eval.out = "Ok(true)"
    /\ eval.arg.checker.max_lines >= 2
    /\ DecidingLine(eval.arg.input, eval.arg.checker.pattern,
                    eval.arg.checker.max_lines) = eval.arg.checker.max_lines
    /\ LineInvalid(eval.arg.input, eval.arg.checker.max_lines + 1)

\* line k of s as split('\n') gives it: between newline k - 1 and newline k
SplitLine(s, k) ==
    LET newlines == { i \in 1..Len(s) : s[i] = NL }
        before == { i \in newlines : LineNo(s, i) = k - 1 }
        after == { i \in newlines : LineNo(s, i) = k }
        from == IF before = {} THEN 1 ELSE (CHOOSE i \in before : TRUE) + 1
        to == IF after = {} THEN Len(s) ELSE (CHOOSE i \in after : TRUE) - 1
    IN  SubSeq(s, from, to)

\* the number of pieces split('\n') gives
SplitCount(s) == Cardinality({ i \in 1..Len(s) : s[i] = NL }) + 1

\* x without its trailing spaces and tabs
Trimmed(x) ==
    LET solid == { i \in 1..Len(x) : x[i] \notin {SP, TAB} }
    IN  IF solid = {} THEN <<>>
        ELSE SubSeq(x, 1, CHOOSE i \in solid : \A k \in solid : k <= i)

\* the content lines k.. of the wrapped text
RECURSIVE ContentLines(_, _, _)
ContentLines(text, prefix, k) ==
    IF k > SplitCount(text) THEN <<>>
    ELSE Trimmed(prefix \o SplitLine(text, k)) \o <<NL>>
         \o ContentLines(text, prefix, k + 1)

\* the wrapped header as described line by line
WrappedAsDescribed(text, d) ==
    (IF d.first_line = <<>> THEN <<>> ELSE d.first_line \o <<NL>>)
    \o ContentLines(text, d.content_line_prefix, 1)
    \o (IF d.last_line = <<>> THEN <<>> ELSE d.last_line \o <<NL>>)

WrapCalled == eval.fn = "wrap_header" /\ eval.called

\* C19: wrap_header gives the prefix line, each line of the text with the
\* per-line prefix and without trailing spaces and tabs, and the suffix line,
\* each followed by a newline; no line of the result ends in a space or tab;
\* an empty line under ' * ' becomes ' *'; L1/L2 wraps to '/*', ' * L1',
\* ' * L2', ' */' for extension c and to '# L1', '# L2' for extension py
C19_WrapHeader ==
    WrapCalled =>
        LET text == eval.arg.text
            d == eval.arg.delim
            out == eval.out
        IN  /\ out = WrappedAsDescribed(text, d)
            /\ out # <<>> /\ out[Len(out)] = NL
            /\ \A i \in 2..Len(out) : out[i] = NL => out[i - 1] \notin {SP, TAB}
            /\ (d.content_line_prefix = <<SP, "*", SP>>
                    /\ \E k \in 1..SplitCount(text) : SplitLine(text, k) = <<>>)
                   => Contains(out, <<NL, SP, "*", NL>>)
            /\ (text = <<"L", "1", NL, "L", "2">>
                    /\ d = header_delimiters([extension |-> "c", file_name |-> "f.c"]))
                   => out = <<"/", "*", NL, SP, "*", SP, "L", "1", NL,
                              SP, "*", SP, "L", "2", NL, SP, "*", "/", NL>>
            /\ (text = <<"L", "1", NL, "L", "2">>
                    /\ d = header_delimiters([extension |-> "py", file_name |-> "f.py"]))
                   => out = <<"#", SP, "L", "1", NL, "#", SP, "L", "2", NL>>

\* a text with trailing whitespace on one line and an empty line, under ' * '
C19_Witness ==
    /\ WrapCalled
    /\ eval.arg.delim.content_line_prefix = <<SP, "*", SP>>
    /\ \E k \in 1..SplitCount(eval.arg.text) :
           /\ SplitLine(eval.arg.text, k) # <<>>
           /\ Trimmed(SplitLine(eval.arg.text, k)) # SplitLine(eval.arg.text, k)
           /\ Trimmed(SplitLine(eval.arg.text, k)) # <<>>
    /\ \E k \in 1..SplitCount(eval.arg.text) : SplitLine(eval.arg.text, k) = <<>>
    /\ Contains(eval.out, <<NL, SP, "*", NL>>)

\* the delimiter table: the extensions of a row, its prefix line, per-line
\* prefix and suffix line
DelimiterTable ==
    { [exts |-> {"c", "h", "gv", "java", "scala", "kt", "kts"},
       first_line |-> <<"/", "*">>, content_line_prefix |-> <<SP, "*", SP>>,
       last_line |-> <<SP, "*", "/">>],
      [exts |-> {"js", "mjs", "cjs", "jsx", "tsx", "css", "scss", "sass", "ts"},
       first_line |-> <<"/", "*", "*">>, content_line_prefix |-> <<SP, "*", SP>>,
       last_line |-> <<SP, "*", "/">>],
      [exts |-> {"cc", "cpp", "cs", "go", "hcl", "hh", "hpp", "m", "mm", "proto",
                 "rs", "swift", "dart", "groovy", "v", "sv", "php"},
       first_line |-> <<>>, content_line_prefix |-> <<"/", "/", SP>>,
       last_line |-> <<>>],
      [exts |-> {"py", "sh", "yaml", "yml", "dockerfile", "rb", "gemfile", "tcl",
                 "tf", "bzl", "pl", "pp", "build"},
       first_line |-> <<>>, content_line_prefix |-> <<"#", SP>>, last_line |-> <<>>],
      [exts |-> {"el", "lisp"},
       first_line |-> <<>>, content_line_prefix |-> <<";", ";", SP>>,
       last_line |-> <<>>],
      [exts |-> {"erl"},
       first_line |-> <<>>, content_line_prefix |-> <<"%", SP>>, last_line |-> <<>>],
      [exts |-> {"hs", "lua", "sql", "sdl"},
       first_line |-> <<>>, content_line_prefix |-> <<"-", "-", SP>>,
       last_line |-> <<>>],
      [exts |-> {"html", "xml", "vue", "wxi", "wxl", "wxs"},
       first_line |-> <<"<", "!", "-", "-">>, content_line_prefix |-> <<SP>>,
       last_line |-> <<"-", "-", ">">>],
      [exts |-> {"ml", "mli", "mll", "mly"},
       first_line |-> <<"(", "*", "*">>, content_line_prefix |-> <<SP, SP, SP>>,
       last_line |-> <<"*", ")">>] }

\* the delimiters of a row
DelimitersOf(row) ==
    [first_line |-> row.first_line,
     content_line_prefix |-> row.content_line_prefix,
     last_line |-> row.last_line]

\* the text a file holds when the checker of ScanHeader sees its pattern
SeenText == <<"a", NL>>

DelimitersCalled == eval.fn = "header_delimiters" /\ eval.called

\* C20: header_delimiters gives the row of the table that holds the path's
\* extension, compared case-sensitively; for an extension in no row it gives
\* '# ' when the file name is exactly 'Dockerfile' and no delimiters for every
\* other path; add_header_if_missing on a file without the header and
\* delete_header_if_present on a file with it report UnrecognizedExtension
\* exactly for the paths without delimiters
C20_HeaderDelimiters ==
    DelimitersCalled =>
        LET p == eval.arg
            rows == { row \in DelimiterTable : p.extension \in row.exts }
        IN  /\ Cardinality(rows) <= 1
            /\ \A row \in rows : eval.out = DelimitersOf(row)
            /\ rows = {} =>
                   eval.out = IF p.file_name = "Dockerfile"
                              THEN [first_line |-> <<>>,
                                    content_line_prefix |-> <<"#", SP>>,
                                    last_line |-> <<>>]
                              ELSE None
            /\ eval.out = None
                   <=> add_header_if_missing(hdr, p, <<>>).ret
                           = "Err(UnrecognizedExtension)"
            /\ eval.out = None
                   <=> delete_header_if_present(hdr, p, SeenText).ret
                           = "Err(UnrecognizedExtension)"

\* the file name fallback: no extension, the file name 'Dockerfile'
C20_Witness ==
    /\ DelimitersCalled
    /\ eval.arg.extension \notin UNION { row.exts : row \in DelimiterTable }
    /\ eval.arg.file_name = "Dockerfile"
    /\ eval.out # None

----------------------------------------------------------------------------
(* Termination of check_headers_recursively (FairScanSpec)                  *)

\* the function has returned; without a fatal error it returned Ok after
\* every worker drained the path queue, exited and was joined, with the
\* result channel closed and empty
ScanDone ==
    /\ main_pc = "returned"
    /\ (NoFatalError /\ num_threads >= 1) =>
           /\ ret = "Ok"
           /\ path_q = <<>>
           /\ \A w \in Workers : wpc[w] = "done" /\ w \in joined
           /\ result_tx = {}
           /\ result_q = <<>>

\* C21: under fair scheduling of the threads check_headers_recursively
\* eventually returns, for every walk and every number of workers; without a
\* fatal error it has by then drained the path queue, seen every worker exit,
\* closed the result channel and joined every worker
C21_ScanTerminates == <>ScanDone

\* a scan with two workers and nothing fatal that has returned
C21_Witness ==
    /\ ScanDone
    /\ NoFatalError
    /\ num_threads >= 2
    /\ Len(taken) >= 2

\* every file has the bytes it had when the function was called
NothingModified ==
    \A p \in 1..Len(walk) : walk[p].kind = "file" => disk[p] = Original(p)

\* C22: the operation is applied to no path before find_files has walked the
\* whole tree and returned; when the walk fails with a traversal error the
\* operation is never applied and no file is modified, although paths may
\* already have been sent
C22_EnumerationFirst ==
    /\ main_pc = "find" => applied = <<>> /\ NothingModified
    /\ applied # <<>> => walk_i = Len(walk) /\ ~path_tx
    /\ ~NoTraversalError => applied = <<>> /\ NothingModified
    /\ (main_pc = "returned" /\ ret = "Err(WalkdirError)")
           => /\ ~NoTraversalError
              /\ applied = <<>>
              /\ NothingModified

\* the walk failed after a file the operation would have changed was sent
C22_Witness ==
    /\ main_pc = "returned"
    /\ ret = "Err(WalkdirError)"
    /\ \E i \in 1..Len(path_q) : WouldChange(path_q[i])

----------------------------------------------------------------------------
(* check_headers_recursively without workers (ScanSpec)                     *)

\* the enumerated paths among the first n entries of the walk, in order
RECURSIVE EnumeratedUpTo(_)
EnumeratedUpTo(n) ==
    IF n = 0 THEN <<>>
    ELSE IF n \in Enumerated THEN Append(EnumeratedUpTo(n - 1), n)
    ELSE EnumeratedUpTo(n - 1)

\* C24: with num_threads = 0 no path is ever received and no file opened, the
\* paths sent stay in the path queue, both lists stay empty, the calling
\* thread can always take its next step until it has returned, and without a
\* traversal error it returns Ok with every enumerated path still queued
C24_NoWorkers ==
    num_threads = 0 =>
        /\ taken = <<>>
        /\ res = [no_header_files |-> <<>>, binary_files |-> <<>>]
        /\ path_q = EnumeratedUpTo(walk_i)
        /\ main_pc # "returned" => ENABLED MainStep
        /\ main_pc = "returned" =>
               IF \E p \in 1..Len(walk) : walk[p].kind = "err"
               THEN ret = "Err(WalkdirError)"
               ELSE ret = "Ok" /\ path_q = EnumeratedUpTo(Len(walk))

\* Ok although a file without the header and a file that is not UTF-8 were
\* enumerated
C24_Witness ==
    /\ num_threads = 0
    /\ main_pc = "returned"
    /\ ret = "Ok"
    /\ \E i, j \in 1..Len(path_q) :
           /\ OpenAndCheck(hdr, walk[path_q[i]]) = "Ok(false)"
           /\ OpenAndCheck(hdr, walk[path_q[j]]) = "Err(InvalidData)"

====
